---------------------------- MODULE Spec2Model ----------------------------
(***************************************************************************)
(* Compliance & security scanning: the compliance page of the dashboard    *)
(* (frontend/app/compliance/page.tsx), the API client (frontend/lib/api.ts)*)
(* and the scanning engine behind POST /compliance/check; next to them the  *)
(* ScanResults component, the DemoTerminal, the AuthProvider, the          *)
(* DashboardPage with its simulated agents, and the app store.             *)
(*                                                                         *)
(* The engine (rule registry, matchers, resolver, aggregator, coordinator) *)
(* is not part of the sources at hand; it is modelled from its design      *)
(* document.  The Luhn checksum is modelled from the Python reference in   *)
(* the knowledge base (CardTokenizer._validate_luhn, validate_card_number).*)
(*                                                                         *)
(* Text is modelled as sequences of one-character strings.  A code text is *)
(* a sequence of lines, a line a sequence of tokens [k, v]: k is the       *)
(* lexical class a matcher pattern recognises, v the literal it captures.  *)
(***************************************************************************)
EXTENDS Integers, Sequences, FiniteSets, TLC

VARIABLES
    \* ---- compliance page (React state of CompliancePage) ----
    code,               \* useState(sampleCode)
    selectedStandards,  \* useState(['PCI-DSS', 'RBI'])
    scanResults,        \* useState<ComplianceResponse | null>(null)
    toast,              \* the last toast shown
    inflight,           \* the pending POST /compliance/check, or Null
    lastReq,            \* the request whose outcome scanResults shows
    lastOutcome,        \* how that request ended (history variable)
    clientOutcome,      \* what a direct caller of api.checkCompliance holds
    nActions,           \* what the user did so far: edits, clicks
    \* ---- scan coordinator (one Scan call, fan-out / fan-in) ----
    eCode,              \* the code text of the request
    eStandards,         \* the requested standards
    eActive,            \* the rules the resolver made active
    ePending,           \* active rules no worker has taken yet
    eRunning,           \* rules whose matcher is running (worker pool)
    eChan,              \* results channel: rules by order of completion
    eFaulted,           \* rules whose matcher threw or ran out of budget
    eTimedOut,          \* the overall time budget was exceeded
    ePhase, eResult,
    \* ---- checksum-validated numeric matcher on one candidate ----
    pan, lPhase, lFindings,
    \* ---- ScanResults component on one issue ----
    rIssue,             \* the ComplianceIssue handed to the component
    rCard,              \* what the card of the issue shows
    rPhase,
    \* ---- DemoTerminal (landing page) ----
    tMounted,           \* the component is mounted
    visibleLines,       \* useState<number>(0)
    isTyping,           \* useState(true)
    tTimers,            \* indexes of the line timers that are scheduled
    tReset,             \* the inner setTimeout(..., 3000) is scheduled
    tDep,               \* shouldRestart as of the last run of the effect
    nMounts,
    \* ---- AuthProvider and the token management of lib/api.ts ----
    aPhase,             \* "unmounted", "rendered" (effects pending), "ready"
    token,              \* useState<string | null>(null); "" stands for null
    isLoading,          \* useState(true)
    error,              \* useState<string | null>(null); "" stands for null
    localStorage,       \* localStorage 'auth_token'; "" when there is none
    authToken,          \* let authToken of lib/api.ts
    aDeps,              \* [token, isLoading] as the auto-login effect last saw
    nAutoReq,           \* demo login requests in flight
    nLoginReq,          \* login() calls awaiting POST /auth/token
    aHist,              \* since the last logout (history variable)
    aThrown,            \* message the last ended login() threw, "" if none
    apiRequest,         \* the last request an api call built
    nAuthCalls,
    \* ---- the report downloaded from the compliance page ----
    report,             \* the JSON the last click on Download wrote, or Null
    \* ---- DashboardPage and its timers ----
    agents,             \* useState<ActiveAgent[]>(defaultAgents): role -> state
    taskResult,         \* useState<TaskResult | null>(null)
    dToast,             \* the toasts the dashboard has shown, oldest first
    pendingTask,        \* the task of the pending executeTask call, or Null
    timers,             \* the setTimeout callbacks scheduled and not yet run,
                        \* in the order of their scheduling
    nRuns,              \* runs of handleExecute so far
    runLog,             \* how the API call of each run ended (history)
    \* ---- the app store (zustand) ----
    storeStandards      \* selectedStandards of useAppStore

pageVars == <<code, selectedStandards, scanResults, toast, inflight, lastReq,
              lastOutcome, clientOutcome, nActions>>
engVars  == <<eCode, eStandards, eActive, ePending, eRunning, eChan, eFaulted,
              eTimedOut, ePhase, eResult>>
luhnVars == <<pan, lPhase, lFindings>>
renderVars == <<rIssue, rCard, rPhase>>
termVars == <<tMounted, visibleLines, isTyping, tTimers, tReset, tDep, nMounts>>
authVars == <<aPhase, token, isLoading, error, localStorage, authToken, aDeps,
              nAutoReq, nLoginReq, aHist, aThrown, apiRequest, nAuthCalls>>
dlVars   == <<report>>
dashVars == <<agents, taskResult, dToast, pendingTask, timers, nRuns, runLog>>
storeVars == <<storeStandards>>
vars     == <<pageVars, engVars, luhnVars, renderVars, termVars, authVars,
              dlVars, dashVars, storeVars>>

\* what the steps of one part leave alone
restVars      == <<dlVars, dashVars, storeVars>>
notPageVars   == <<engVars, luhnVars, renderVars, termVars, authVars, restVars>>
notEngVars    == <<pageVars, luhnVars, renderVars, termVars, authVars, restVars>>
notLuhnVars   == <<pageVars, engVars, renderVars, termVars, authVars, restVars>>
notRenderVars == <<pageVars, engVars, luhnVars, termVars, authVars, restVars>>
notTermVars   == <<pageVars, engVars, luhnVars, renderVars, authVars, restVars>>
notAuthVars   == <<pageVars, engVars, luhnVars, renderVars, termVars, restVars>>
notDlVars     == <<pageVars, engVars, luhnVars, renderVars, termVars, authVars,
                   dashVars, storeVars>>
notDashVars   == <<pageVars, engVars, luhnVars, renderVars, termVars, authVars,
                   dlVars, storeVars>>
notStoreVars  == <<pageVars, engVars, luhnVars, renderVars, termVars, authVars,
                   dlVars, dashVars>>

Null == [none |-> TRUE]

-----------------------------------------------------------------------------
(* Generic sequence helpers                                                *)

RECURSIVE SumSeq(_)
SumSeq(s) == IF s = <<>> THEN 0 ELSE Head(s) + SumSeq(Tail(s))

RECURSIVE Concat(_)
Concat(ss) == IF ss = <<>> THEN <<>> ELSE Head(ss) \o Concat(Tail(ss))

SelectSeqIdx(s, Keep(_)) ==
    LET RECURSIVE go(_)
        go(i) == IF i > Len(s) THEN <<>>
                 ELSE IF Keep(i) THEN <<s[i]>> \o go(i + 1) ELSE go(i + 1)
    IN go(1)

Range(s) == {s[i] : i \in DOMAIN s}

-----------------------------------------------------------------------------
(* Luhn checksum: CardTokenizer._validate_luhn                             *)

DigitChars == {"0", "1", "2", "3", "4", "5", "6", "7", "8", "9"}

\* int(d) for a digit character
IntOf(d) ==
    CASE d = "0" -> 0 [] d = "1" -> 1 [] d = "2" -> 2 [] d = "3" -> 3
      [] d = "4" -> 4 [] d = "5" -> 5 [] d = "6" -> 6 [] d = "7" -> 7
      [] d = "8" -> 8 [] d = "9" -> 9

\* digits[-1::-2]: the last digit and every second one before it
odd_digits(digits) ==
    SelectSeqIdx(digits, LAMBDA i : (Len(digits) - i) % 2 = 0)

\* digits[-2::-2]: the last but one digit and every second one before it
even_digits(digits) ==
    SelectSeqIdx(digits, LAMBDA i : (Len(digits) - i) % 2 = 1)

\* sum(divmod(d * 2, 10))
DivmodSum(d) == ((d * 2) \div 10) + ((d * 2) % 10)

luhn_checksum(p) ==
    LET digits == [i \in 1..Len(p) |-> IntOf(p[i])]
        evens  == even_digits(digits)
    IN  SumSeq(odd_digits(digits))
          + SumSeq([i \in 1..Len(evens) |-> DivmodSum(evens[i])])

\* A plausible slip: the doubling starts at the last digit
validate_luhn_Shifted(p) ==
    LET digits == [i \in 1..Len(p) |-> IntOf(p[i])]
        odds   == odd_digits(digits)
    IN  (SumSeq(even_digits(digits))
          + SumSeq([i \in 1..Len(odds) |-> DivmodSum(odds[i])])) % 10 = 0

\* TRUE when _validate_luhn returns, FALSE when it raises ValueError
validate_luhn(p) == luhn_checksum(p) % 10 = 0

\* re.sub(r'[\s-]', '', card_number)
CleanCardNumber(s) == SelectSeq(s, LAMBDA c : c \notin {" ", "-"})

MinPanLen == 13
MaxPanLen == 19

\* validate_card_number: TRUE when it returns the cleaned number
validate_card_number(s) ==
    LET cleaned == CleanCardNumber(s)
    IN  /\ Len(cleaned) >= MinPanLen
        /\ Len(cleaned) <= MaxPanLen
        /\ \A i \in 1..Len(cleaned) : cleaned[i] \in DigitChars
        /\ validate_luhn(cleaned)

-----------------------------------------------------------------------------
(* Texts                                                                   *)

Tok(k, v) == [k |-> k, v |-> v]
Text      == Tok("text", <<>>)

PanValid   == <<"4","1","1","1","1","1","1","1","1","1","1","1","1","1","1","1">>
PanInvalid == <<"4","1","1","1","1","1","1","1","1","1","1","1","1","1","1","2">>
Cvv123     == <<"1","2","3">>
Secret123  == <<"s","e","c","r","e","t","1","2","3">>
SkLive     == <<"s","k","_","l","i","v","e","_">>
SkTest     == <<"s","k","_","t","e","s","t","_">>
ApiKeyLit  == SkLive \o <<"a","b","c","1","2","3","x","y","z","7","8","9">>

\* page.tsx: const sampleCode
sampleCode ==
    << <<Text>>,                                   \* # Example code ...
       <<Tok("pwd", Secret123)>>,                  \* password = "secret123"
       <<Tok("digits", PanValid)>>,                \* card = "4111111111111111"
       <<Tok("cvvkw", <<>>), Tok("digits", Cvv123)>>,  \* cvv = "123"
       <<>>,
       <<Text>>,                                   \* def get_user(id):
       <<Tok("sqlfmt", <<>>)>>,                    \* query = f"SELECT ... {id}"
       <<Text>>,                                   \* return execute_query(query)
       <<>>,
       <<Tok("apikey", ApiKeyLit)>> >>             \* api_key = "sk_live_..."

EmptyCode   == <<>>                                \* ""
BlankCode   == << <<Tok("blank", <<>>)>> >>        \* "   "
CommentCode == << <<Text>>, <<Text>> >>            \* comments only
BadLuhnCode == << <<Tok("digits", PanInvalid)>>, <<Tok("http", <<>>)>> >>
\* several matches of one rule on one line, two critical rules on one line
DenseCode   ==
    << <<Tok("pwd", Secret123), Tok("digits", PanValid), Tok("digits", Cvv123),
         Tok("pwd", Cvv123)>>,
       <<Tok("http", <<>>)>> >>

\* the texts of the model, by name: the state holds the name of a text
Codes == {"sample", "empty", "blank", "comment", "badluhn", "dense"}

TextOf(name) ==
    CASE name = "sample"  -> sampleCode
      [] name = "empty"   -> EmptyCode
      [] name = "blank"   -> BlankCode
      [] name = "comment" -> CommentCode
      [] name = "badluhn" -> BadLuhnCode
      [] name = "dense"   -> DenseCode

\* code.trim() is the empty string
TrimIsEmpty(c) ==
    \A l \in 1..Len(c) : \A t \in 1..Len(c[l]) : c[l][t].k = "blank"

-----------------------------------------------------------------------------
(* Rule registry                                                           *)

Severities == {"critical", "high", "medium", "low"}

\* critical > high > medium > low
SeverityRank(s) ==
    CASE s = "critical" -> 0 [] s = "high" -> 1 [] s = "medium" -> 2
      [] s = "low" -> 3

\* position of a rule id in the lexicographic order of the rule ids
RuleIdRank(id) ==
    CASE id = "PCI-3.2" -> 0 [] id = "PCI-3.4" -> 1 [] id = "PCI-6.5.1" -> 2
      [] id = "RBI-DPR-1" -> 3 [] id = "SEC-001" -> 4 [] id = "SEC-002" -> 5
      [] id = "SEC-003" -> 6 [] id = "SEC-004" -> 7

Rule(id, stds, cat, sev, m, sens, rem) ==
    [id |-> id, standards |-> stds, category |-> cat, severity |-> sev,
     matcher |-> m, sensitive |-> sens, remediation |-> rem]

Registry ==
    << Rule("PCI-3.4", {"PCI-DSS"}, "Cardholder Data Protection", "critical",
            "checksum", TRUE,
            "Use tokenization. Never store full card numbers."),
       Rule("PCI-3.2", {"PCI-DSS"}, "No Storage of Sensitive Auth Data",
            "critical", "proximity", TRUE,
            "Never store CVV/CVC. Use payment gateway."),
       Rule("SEC-001", {"PCI-DSS", "RBI", "DPDP"}, "Hardcoded Password Detected",
            "critical", "password", TRUE,
            "Use environment variables or secret management."),
       Rule("PCI-6.5.1", {"PCI-DSS"}, "SQL Injection Prevention", "high",
            "sql", FALSE, "Use parameterized queries or ORM."),
       Rule("SEC-002", {"PCI-DSS", "RBI"}, "Exposed API Key", "high",
            "apikey", TRUE, "Store API keys in environment variables."),
       Rule("SEC-003", {"RBI", "DPDP"}, "Weak Password Pattern", "medium",
            "weakpwd", TRUE, "Enforce strong password policy."),
       Rule("SEC-004", {"RBI", "SEBI"}, "Insecure Transport", "low",
            "transport", FALSE, "Use TLS for every connection.") >>

RuleIds == {Registry[i].id : i \in DOMAIN Registry}
RuleOf(id) == Registry[CHOOSE i \in DOMAIN Registry : Registry[i].id = id]

\* A plausible slip: a rule counts as active only when it covers every
\* requested standard
ActiveRules_Covering(requested) ==
    IF requested = {} THEN RuleIds
    ELSE {id \in RuleIds : requested \subseteq RuleOf(id).standards}

\* ActiveRules(standards): the ids of the rules whose standards meet the
\* requested set; the whole registry when the requested set is empty.  An
\* unknown standard meets no rule.
ActiveRules(requested) ==
    IF requested = {} THEN RuleIds
    ELSE {id \in RuleIds : RuleOf(id).standards \cap requested # {}}

\* Resolve(requestedStandards): the requested list to the active rules
Resolve(standards) == ActiveRules(Range(standards))

-----------------------------------------------------------------------------
(* Matcher engine: one rule, one code text -> raw matches in offset order  *)

CvvMinLen == 3
CvvMaxLen == 4
ProximityWindow == 1     \* same line +- one line
MinStrongLen == 12

AllDigits(v) == \A i \in 1..Len(v) : v[i] \in DigitChars

HasPrefix(v, p) == Len(v) >= Len(p) /\ SubSeq(v, 1, Len(p)) = p

\* checksum-validated numeric matcher: a run of 13-19 digits, optionally
\* separated by spaces or dashes, that passes the Luhn checksum
IsCardNumber(tok) == tok.k = "digits" /\ validate_card_number(tok.v)

\* a card-number match or a cvv/cvc keyword within the window of line l
NearCardOrCvv(c, l) ==
    \E l2 \in DOMAIN c :
        /\ l2 >= l - ProximityWindow
        /\ l2 <= l + ProximityWindow
        /\ \E t2 \in DOMAIN c[l2] :
              c[l2][t2].k = "cvvkw" \/ IsCardNumber(c[l2][t2])

\* the number of patterns of matcher m that match the token at (l, t)
PatternHits(m, c, l, t) ==
    LET tok == c[l][t]
        B(b) == IF b THEN 1 ELSE 0
    IN  CASE m = "checksum"  -> B(IsCardNumber(tok))
          [] m = "proximity" -> B(/\ tok.k = "digits"
                                  /\ Len(tok.v) >= CvvMinLen
                                  /\ Len(tok.v) <= CvvMaxLen
                                  /\ AllDigits(tok.v)
                                  /\ NearCardOrCvv(c, l))
          [] m = "password"  -> B(tok.k = "pwd")
          [] m = "weakpwd"   -> B(tok.k = "pwd" /\ Len(tok.v) < MinStrongLen)
          [] m = "sql"       -> B(tok.k = "sqlfmt")
          [] m = "apikey"    -> B(tok.k = "apikey")
                                  + B(HasPrefix(tok.v, SkLive)
                                        \/ HasPrefix(tok.v, SkTest))
          [] m = "transport" -> B(tok.k = "http")

Span(l, t, v) == [line |-> l, col |-> t, ev |-> v]

\* the raw matches of rule id on code c, by offset; overlapping spans are
\* still there
RunMatcher(id, c) ==
    LET m == RuleOf(id).matcher
        OnToken(l, t) ==
            [i \in 1..PatternHits(m, c, l, t) |-> Span(l, t, c[l][t].v)]
        OnLine(l) == Concat([t \in 1..Len(c[l]) |-> OnToken(l, t)])
    IN  Concat([l \in 1..Len(c) |-> OnLine(l)])

\* what one worker puts on the results channel
Batch(id, c) == [rule |-> id, matches |-> RunMatcher(id, c)]

-----------------------------------------------------------------------------
(* Aggregator / result assembler                                           *)

KeepChars == 2

\* A plausible slip: the first and last characters are kept whatever the
\* length of the literal
Redact_NoLengthGuard(v) ==
    [i \in 1..Len(v) |->
        IF i <= KeepChars \/ i > Len(v) - KeepChars THEN v[i] ELSE "*"]

\* evidence of a sensitive rule: the first and last characters only
Redact(v) ==
    [i \in 1..Len(v) |->
        IF Len(v) > 2 * KeepChars /\ (i <= KeepChars \/ i > Len(v) - KeepChars)
        THEN v[i] ELSE "*"]

Finding(id, m) ==
    LET r == RuleOf(id)
    IN  [severity    |-> r.severity,
         rule_name   |-> r.id,
         description |-> r.category,
         evidence    |-> IF r.sensitive THEN Redact(m.ev) ELSE m.ev,
         remediation |-> r.remediation,
         line_number |-> m.line]

\* same rule, overlapping spans: keep the first by offset
Dedup(matches) ==
    SelectSeqIdx(matches, LAMBDA i :
        ~ \E j \in 1..(i - 1) :
            matches[j].line = matches[i].line /\ matches[j].col = matches[i].col)

BatchFindings(b) ==
    LET ms == Dedup(b.matches)
    IN  [i \in 1..Len(ms) |-> Finding(b.rule, ms[i])]

\* severity rank, then line, then rule id
IssueBefore(a, b) ==
    \/ SeverityRank(a.severity) < SeverityRank(b.severity)
    \/ /\ a.severity = b.severity
       /\ \/ a.line_number < b.line_number
          \/ /\ a.line_number = b.line_number
             /\ RuleIdRank(a.rule_name) < RuleIdRank(b.rule_name)

\* put x behind every issue that is not after it (a stable insertion)
InsertIssue(sorted, x) ==
    LET k == Cardinality({i \in 1..Len(sorted) : ~ IssueBefore(x, sorted[i])})
    IN  SubSeq(sorted, 1, k) \o <<x>> \o SubSeq(sorted, k + 1, Len(sorted))

RECURSIVE SortFrom(_, _)
SortFrom(sorted, rest) ==
    IF rest = <<>> THEN sorted
    ELSE SortFrom(InsertIssue(sorted, Head(rest)), Tail(rest))

\* A plausible slip: the findings stay in the order the workers delivered them
SortIssues_Unsorted(issues) == issues

SortIssues(issues) == SortFrom(<<>>, issues)

CountSeverity(issues, s) ==
    Cardinality({i \in 1..Len(issues) : issues[i].severity = s})

Summarize(issues) ==
    [critical |-> CountSeverity(issues, "critical"),
     high     |-> CountSeverity(issues, "high"),
     medium   |-> CountSeverity(issues, "medium"),
     low      |-> CountSeverity(issues, "low")]

ScanResult(issues) ==
    [passed |-> Len(issues) = 0, issues |-> issues, summary |-> Summarize(issues)]

\* fan-in: chan holds the batches in the order the workers completed
Aggregate(chan) ==
    ScanResult(SortIssues(Concat([i \in 1..Len(chan) |-> BatchFindings(chan[i])])))

\* the batch of every rule on every text of the model, worked out once
BatchTable == [n \in Codes |-> [id \in RuleIds |-> Batch(id, TextOf(n))]]

\* the results channel when the workers of rules ids completed in this order
ChanOf(ids, n) == [i \in 1..Len(ids) |-> BatchTable[n][ids[i]]]

-----------------------------------------------------------------------------
(* Scan coordinator: Scan(code, standards) as fan-out / fan-in             *)

PoolSize  == 2      \* workers that run at once
MaxFaults == 1      \* rule faults explored in one scan

\* the ids of a set of rules, in registry order
InRegistryOrder(ids) ==
    LET all == [i \in 1..Len(Registry) |-> Registry[i].id]
    IN  SelectSeq(all, LAMBDA id : id \in ids)

EngineStandards ==
    { <<>>, <<"PCI-DSS">>, <<"RBI">>, <<"PCI-DSS", "RBI">>, <<"DPDP", "SEBI">>,
      <<"HIPAA">>, <<"PCI-DSS", "RBI", "DPDP", "SEBI">> }

EngIdle ==
    /\ eCode = "empty"
    /\ eStandards = <<>>
    /\ eActive = {}
    /\ ePending = <<>>
    /\ eRunning = {}
    /\ eChan = <<>>
    /\ eFaulted = {}
    /\ eTimedOut = FALSE
    /\ ePhase = "idle"
    /\ eResult = Null

\* input validation, then the resolver
ScanStart(c, stds) ==
    /\ ePhase = "idle"
    /\ eCode' = c
    /\ eStandards' = stds
    /\ IF TextOf(c) = EmptyCode
       THEN /\ ePhase' = "rejected"
            /\ UNCHANGED <<eActive, ePending>>
       ELSE /\ ePhase' = "running"
            /\ eActive' = Resolve(stds)
            /\ ePending' = InRegistryOrder(Resolve(stds))
    /\ UNCHANGED <<eRunning, eChan, eFaulted, eTimedOut, eResult>>

\* a free worker takes the next rule
WorkerStart ==
    /\ ePhase = "running"
    /\ ePending # <<>>
    /\ Cardinality(eRunning) < PoolSize
    /\ eRunning' = eRunning \cup {Head(ePending)}
    /\ ePending' = Tail(ePending)
    /\ UNCHANGED <<eCode, eStandards, eActive, eChan, eFaulted, eTimedOut,
                   ePhase, eResult>>

\* a matcher returns: its batch goes onto the results channel
WorkerComplete(r) ==
    /\ ePhase = "running"
    /\ r \in eRunning
    /\ eRunning' = eRunning \ {r}
    /\ eChan' = Append(eChan, r)
    /\ UNCHANGED <<eCode, eStandards, eActive, ePending, eFaulted, eTimedOut,
                   ePhase, eResult>>

\* A plausible slip: a rule fault throws away what the other workers delivered
WorkerFault_Abort(r) ==
    /\ ePhase = "running"
    /\ r \in eRunning
    /\ Cardinality(eFaulted) < MaxFaults
    /\ eRunning' = eRunning \ {r}
    /\ eFaulted' = eFaulted \cup {r}
    /\ eChan' = <<>>
    /\ UNCHANGED <<eCode, eStandards, eActive, ePending, eTimedOut, ePhase,
                   eResult>>

\* a matcher throws, times out or exceeds its budget: its contribution is
\* dropped and the scan goes on
WorkerFault(r) ==
    /\ ePhase = "running"
    /\ r \in eRunning
    /\ Cardinality(eFaulted) < MaxFaults
    /\ eRunning' = eRunning \ {r}
    /\ eFaulted' = eFaulted \cup {r}
    /\ UNCHANGED <<eCode, eStandards, eActive, ePending, eChan, eTimedOut,
                   ePhase, eResult>>

\* every worker has ended: the aggregator assembles the result
ScanFinish ==
    /\ ePhase = "running"
    /\ ePending = <<>>
    /\ eRunning = {}
    /\ eResult' = Aggregate(ChanOf(eChan, eCode))
    /\ ePhase' = "done"
    /\ UNCHANGED <<eCode, eStandards, eActive, ePending, eRunning, eChan,
                   eFaulted, eTimedOut>>

\* the overall budget runs out: the workers are cancelled and the result is
\* assembled from what completed
ScanTimeout ==
    /\ ePhase = "running"
    /\ ePending # <<>> \/ eRunning # {}
    /\ eTimedOut' = TRUE
    /\ ePending' = <<>>
    /\ eRunning' = {}
    /\ eResult' = Aggregate(ChanOf(eChan, eCode))
    /\ ePhase' = "done"
    /\ UNCHANGED <<eCode, eStandards, eActive, eChan, eFaulted>>

-----------------------------------------------------------------------------
(* The checksum matcher on one candidate digit run                         *)

MaxTailLen == 3

PanPrefix == <<"4","1","1","1","1","1","1","1","1","1","1","1","1">>

TailChars == DigitChars \cup {"-"}

Tails == UNION {[1..n -> TailChars] : n \in 0..MaxTailLen}

\* too short, too long, with separators
OtherCandidates ==
    { <<"4","1","1","1","1","1","1","1","1","1","1","7">>,
      PanValid \o <<"0","0","0","0">>,
      <<"4","1","1","1"," ","1","1","1","1"," ","1","1","1","1"," ",
        "1","1","1","1">> }

Candidates == {PanPrefix \o t : t \in Tails} \cup OtherCandidates

LuhnIdle ==
    /\ pan = <<>>
    /\ lPhase = "idle"
    /\ lFindings = <<>>

\* PCI-3.4 run on a text that holds the candidate and nothing else
ScanCandidate ==
    /\ lPhase = "input"
    /\ lFindings' =
          Aggregate(<<Batch("PCI-3.4", << <<Tok("digits", pan)>> >>)>>).issues
    /\ lPhase' = "scanned"
    /\ UNCHANGED pan

-----------------------------------------------------------------------------
(* POST /compliance/check as the API client sees it                        *)

MaxActions == 3     \* edits of the code, clicks on a checkbox or on Scan

\* JSON.stringify(req): ComplianceRequest {code, standards?}
Body(c, hasCode, stds, hasStds) ==
    [code |-> c, hasCode |-> hasCode, standards |-> stds, hasStandards |-> hasStds]

\* the rules that completed, in an order the workers may have ended in
CompletionOrders(ids) ==
    LET o == InRegistryOrder(ids)
    IN  {o, [i \in 1..Len(o) |-> o[Len(o) + 1 - i]]}

\* the rules whose matcher may fault in the scans behind the page
FlakyRules == {"PCI-3.4", "SEC-003"}

\* (completed rules, timed out) for one scan: some flaky rules fault, or the
\* budget runs out before the first rule or before the last one completes
ScanOutcomes(active) ==
    LET o == InRegistryOrder(active)
    IN  {[completed |-> active \ d, timedOut |-> FALSE] :
            d \in SUBSET (FlakyRules \cap active)}
        \cup
        {[completed |-> {o[i] : i \in 1..k}, timedOut |-> TRUE] :
            k \in {0, Len(o) - 1} \cap 0..(Len(o) - 1)}

\* the response body: passed, issues, summary and nothing else
ResponseBody(result) ==
    [passed |-> result.passed, issues |-> result.issues, summary |-> result.summary]

Response(net, ok, status, json, completed, timedOut) ==
    [net |-> net, ok |-> ok, status |-> status, json |-> json,
     completed |-> completed, timedOut |-> timedOut]

ErrorBody == [detail |-> "code must not be empty"]

\* what fetch() may end with for this request body
Responses(body) ==
    {Response(TRUE, FALSE, 0, Null, {}, FALSE)}             \* fetch rejects
    \cup {Response(FALSE, FALSE, 503, Null, {}, FALSE)}     \* service fault
    \cup
    IF ~ body.hasCode \/ TextOf(body.code) = EmptyCode
    THEN {Response(FALSE, FALSE, 400, ErrorBody, {}, FALSE)}
    ELSE LET active == Resolve(IF body.hasStandards THEN body.standards ELSE <<>>)
             Ended(oc) ==
                 {Response(FALSE, TRUE, 200,
                           ResponseBody(Aggregate(ChanOf(ord, body.code))),
                           oc.completed, oc.timedOut) :
                     ord \in CompletionOrders(oc.completed)}
         IN  UNION {Ended(oc) : oc \in ScanOutcomes(active)}

Outcome(threw, message, value) ==
    [threw |-> threw, message |-> message, value |-> value]

\* A plausible slip: the status of the response is not looked at
checkCompliance_NoStatusCheck(resp) ==
    IF resp.net THEN Outcome(TRUE, "fetch failed", Null)
    ELSE Outcome(FALSE, "", resp.json)

\* api.checkCompliance once fetch has ended: throws, or returns res.json()
checkCompliance(resp) ==
    IF resp.net THEN Outcome(TRUE, "fetch failed", Null)
    ELSE IF ~ resp.ok THEN Outcome(TRUE, "Failed to check compliance", Null)
    ELSE Outcome(FALSE, "", resp.json)

-----------------------------------------------------------------------------
(* The compliance page                                                     *)

\* page.tsx: const standards
standards == <<"PCI-DSS", "RBI", "DPDP", "SEBI">>

DemoIssue(sev, rule, desc, line, rem) ==
    [severity |-> sev, rule_name |-> rule, description |-> desc,
     line_number |-> line, remediation |-> rem]

\* A plausible slip: the demo verdict says passed
demoResults_Passed ==
    [passed |-> TRUE,
     issues |-> << DemoIssue("critical", "PCI-3.4", "Cardholder Data Protection",
                             3, "Use tokenization. Never store full card numbers.") >>,
     summary |-> [critical |-> 1, high |-> 0, medium |-> 0, low |-> 0]]

\* A plausible slip: an issue was added to the demo list and not to its summary
demoResults_StaleSummary ==
    [passed |-> FALSE,
     issues |-> << DemoIssue("critical", "PCI-3.4", "Cardholder Data Protection",
                             3, "Use tokenization. Never store full card numbers."),
                   DemoIssue("high", "SEC-002", "Exposed API Key", 10,
                             "Store API keys in environment variables.") >>,
     summary |-> [critical |-> 1, high |-> 0, medium |-> 0, low |-> 0]]

\* A plausible slip: an issue was moved to another severity and the summary
\* was not
demoResults_WrongBucket ==
    [passed |-> FALSE,
     issues |-> << DemoIssue("critical", "PCI-3.4", "Cardholder Data Protection",
                             3, "Use tokenization. Never store full card numbers."),
                   DemoIssue("high", "SEC-002", "Exposed API Key", 10,
                             "Store API keys in environment variables.") >>,
     summary |-> [critical |-> 2, high |-> 0, medium |-> 0, low |-> 0]]

\* handleScan: const demoResults
demoResults ==
    [passed |-> FALSE,
     issues |->
        << DemoIssue("critical", "PCI-3.4", "Cardholder Data Protection", 3,
                     "Use tokenization. Never store full card numbers."),
           DemoIssue("critical", "PCI-3.2", "No Storage of Sensitive Auth Data", 4,
                     "Never store CVV/CVC. Use payment gateway."),
           DemoIssue("critical", "SEC-001", "Hardcoded Password Detected", 2,
                     "Use environment variables or secret management."),
           DemoIssue("high", "PCI-6.5.1", "SQL Injection Prevention", 7,
                     "Use parameterized queries or ORM."),
           DemoIssue("high", "SEC-002", "Exposed API Key", 10,
                     "Store API keys in environment variables."),
           DemoIssue("high", "RBI-DPR-1", "Sensitive Data Logging Risk", 3,
                     "Implement data masking for logs."),
           DemoIssue("medium", "SEC-003", "Weak Password Pattern", 2,
                     "Enforce strong password policy.") >>,
     summary |-> [critical |-> 3, high |-> 3, medium |-> 1, low |-> 0]]

\* Object.values(summary).reduce((a, b) => a + b, 0)
SumValues(summary) ==
    LET RECURSIVE go(_)
        go(keys) == IF keys = {} THEN 0
                    ELSE LET k == CHOOSE x \in keys : TRUE
                         IN  summary[k] + go(keys \ {k})
    IN  go(DOMAIN summary)

Toast(title, text, count, variant) ==
    [title |-> title, text |-> text, count |-> count, variant |-> variant]

NoOutcome == [kind |-> "none", completed |-> {}, timedOut |-> FALSE]

PageInit ==
    /\ code = "sample"
    /\ selectedStandards = <<"PCI-DSS", "RBI">>
    /\ scanResults = Null
    /\ toast = Null
    /\ inflight = Null
    /\ lastReq = Null
    /\ lastOutcome = NoOutcome
    /\ clientOutcome = Null
    /\ nActions = 0

\* the texts typed into the editor
PageCodes == {"sample", "empty", "blank", "comment"}

\* CodeEditor onChange={setCode}
SetCode(c) ==
    /\ nActions < MaxActions
    /\ c # code
    /\ code' = c
    /\ nActions' = nActions + 1
    /\ UNCHANGED <<selectedStandards, scanResults, toast, inflight, lastReq,
                   lastOutcome, clientOutcome>>

\* A plausible slip: the id is appended whether selected or not
Toggled_AlwaysAppend(prev, id) == Append(prev, id)

\* prev.includes(id) ? prev.filter((s) => s !== id) : [...prev, id]
Toggled(prev, id) ==
    IF id \in Range(prev) THEN SelectSeq(prev, LAMBDA x : x # id)
    ELSE Append(prev, id)

toggleStandard(id) ==
    /\ nActions < MaxActions
    /\ selectedStandards' = Toggled(selectedStandards, id)
    /\ nActions' = nActions + 1
    /\ UNCHANGED <<code, scanResults, toast, inflight, lastReq, lastOutcome,
                   clientOutcome>>

\* A plausible slip: the Scan button is disabled only while a scan is pending
handleScan_NoTrimGuard ==
    /\ inflight = Null
    /\ nActions < MaxActions
    /\ inflight' = Body(code, TRUE, selectedStandards, TRUE)
    /\ nActions' = nActions + 1
    /\ UNCHANGED <<code, selectedStandards, scanResults, toast, lastReq,
                   lastOutcome, clientOutcome>>

\* the Scan button: disabled={complianceCheck.isPending || !code.trim()};
\* handleScan up to the await of mutateAsync({code, standards})
handleScan ==
    /\ inflight = Null
    /\ ~ TrimIsEmpty(TextOf(code))
    /\ nActions < MaxActions
    /\ inflight' = Body(code, TRUE, selectedStandards, TRUE)
    /\ nActions' = nActions + 1
    /\ UNCHANGED <<code, selectedStandards, scanResults, toast, lastReq,
                   lastOutcome, clientOutcome>>

\* A plausible slip: the new issues are appended to the ones already shown
Installed_Merged(prev, result) ==
    IF prev = Null THEN result
    ELSE [result EXCEPT !.issues = prev.issues \o result.issues]

\* setScanResults(result)
Installed(prev, result) == result

\* handleScan after the await: the try branch
handleScanResolve ==
    /\ inflight # Null
    /\ \E resp \in Responses(inflight) :
          LET oc == checkCompliance(resp)
              result == oc.value
          IN  /\ ~ oc.threw
              /\ scanResults' = Installed(scanResults, result)
              /\ toast' =
                    IF result.passed
                    THEN Toast("Scan Complete", "No compliance issues detected",
                               0, "default")
                    ELSE Toast("Issues Found", "Found n issues",
                               SumValues(result.summary), "destructive")
              /\ lastOutcome' = [kind |-> "ok", completed |-> resp.completed,
                                 timedOut |-> resp.timedOut]
    /\ lastReq' = inflight
    /\ inflight' = Null
    /\ UNCHANGED <<code, selectedStandards, clientOutcome, nActions>>

\* handleScan after the await: the catch branch
handleScanReject ==
    /\ inflight # Null
    /\ \E resp \in Responses(inflight) : checkCompliance(resp).threw
    /\ scanResults' = demoResults
    /\ toast' = Toast("Demo Mode",
                      "Showing demo scan results (API not connected)", 0, "default")
    /\ lastOutcome' = [kind |-> "failed", completed |-> {}, timedOut |-> FALSE]
    /\ lastReq' = inflight
    /\ inflight' = Null
    /\ UNCHANGED <<code, selectedStandards, clientOutcome, nActions>>

\* requests another caller of api.checkCompliance may build
ClientBodies ==
    { Body("empty", TRUE, <<>>, FALSE),            \* {code: ""}
      Body("empty", FALSE, <<"PCI-DSS">>, TRUE),   \* {standards: [...]}
      Body("blank", TRUE, <<>>, FALSE),
      Body("badluhn", TRUE, <<"PCI-DSS">>, TRUE) }

\* await api.checkCompliance(body) by a caller other than the page
ClientCall(body) ==
    /\ clientOutcome = Null
    /\ \E resp \in Responses(body) :
          clientOutcome' = [via |-> "checkCompliance", req |-> body,
                            out |-> checkCompliance(resp),
                            completed |-> resp.completed,
                            timedOut |-> resp.timedOut]
    /\ UNCHANGED <<code, selectedStandards, scanResults, toast, inflight,
                   lastReq, lastOutcome, nActions>>

\* POST /security/scan: the alias of POST /compliance/check that scans for
\* all standards, whatever the body says about standards
ScanResponses(body) == Responses(Body(body.code, body.hasCode, <<>>, FALSE))

\* A plausible slip: the scan request carries the page's default standards
ScanRequestBody_WithStandards(c) == Body(c, TRUE, <<"PCI-DSS", "RBI">>, TRUE)

\* JSON.stringify(req): SecurityScanRequest {code}
ScanRequestBody(c) == Body(c, TRUE, <<>>, FALSE)

\* api.scanCode once fetch has ended: throws, or returns res.json()
scanCode(resp) ==
    IF resp.net THEN Outcome(TRUE, "fetch failed", Null)
    ELSE IF ~ resp.ok THEN Outcome(TRUE, "Failed to scan code", Null)
    ELSE Outcome(FALSE, "", resp.json)

\* the texts a caller of api.scanCode sends
ScanCodes == {"empty", "badluhn", "dense"}

\* await api.scanCode({code})
ClientScan(c) ==
    /\ clientOutcome = Null
    /\ \E resp \in ScanResponses(ScanRequestBody(c)) :
          clientOutcome' = [via |-> "scanCode", req |-> ScanRequestBody(c),
                            out |-> scanCode(resp),
                            completed |-> resp.completed,
                            timedOut |-> resp.timedOut]
    /\ UNCHANGED <<code, selectedStandards, scanResults, toast, inflight,
                   lastReq, lastOutcome, nActions>>

\* the caller lets go of what the call ended with
ClientDrop ==
    /\ clientOutcome # Null
    /\ clientOutcome' = Null
    /\ UNCHANGED <<code, selectedStandards, scanResults, toast, inflight,
                   lastReq, lastOutcome, nActions>>

-----------------------------------------------------------------------------
(* The ScanResults component                                               *)

\* {issue.evidence && (<div>{issue.evidence}</div>)}: the text shown, or the
\* empty text when nothing is shown
EvidenceShown(issue) ==
    IF "evidence" \in DOMAIN issue /\ issue.evidence # <<>>
    THEN issue.evidence ELSE <<>>

StrField(issue, f) == IF f \in DOMAIN issue THEN issue[f] ELSE ""

\* a || b on strings: undefined and '' are falsy
OrStr(a, b) == IF a # "" THEN a ELSE b

\* A plausible slip: the alias is looked at first
ruleName_AliasFirst(issue) ==
    OrStr(StrField(issue, "rule_id"), OrStr(StrField(issue, "rule_name"), ""))

\* const ruleName = issue.rule_name || issue.rule_id || ''
ruleName(issue) ==
    OrStr(StrField(issue, "rule_name"), OrStr(StrField(issue, "rule_id"), ""))

\* const description = issue.description || issue.message || ''
description(issue) ==
    OrStr(StrField(issue, "description"), OrStr(StrField(issue, "message"), ""))

\* const remediation = issue.remediation || issue.recommendation
remediation(issue) ==
    OrStr(StrField(issue, "remediation"), StrField(issue, "recommendation"))

Undefined == [undefined |-> TRUE]

\* const lineNumber = issue.line_number || issue.line: 0 is falsy
lineNumber(issue) ==
    IF "line_number" \in DOMAIN issue /\ issue.line_number # 0
    THEN [n |-> issue.line_number]
    ELSE IF "line" \in DOMAIN issue THEN [n |-> issue.line] ELSE Undefined

\* {lineNumber && (<div>Line {lineNumber}</div>)}: React shows a bare 0 as text
LineShown(issue) ==
    LET ln == lineNumber(issue)
    IN  IF ln = Undefined THEN [text |-> "", n |-> 0]
        ELSE IF ln.n = 0 THEN [text |-> "0", n |-> 0]
        ELSE [text |-> "Line", n |-> ln.n]

\* the card of one issue
IssueCard(issue) ==
    [ruleName    |-> ruleName(issue),
     description |-> description(issue),
     evidence    |-> EvidenceShown(issue),
     line        |-> LineShown(issue),
     remediation |-> remediation(issue)]

\* the issues a caller may hand to the component: ComplianceIssue with its
\* optional fields and aliases
Opt(f, vals) == {<<>>} \cup {f :> v : v \in vals}

PropIssues ==
    {[severity |-> "high"] @@ a @@ b @@ c @@ d @@ e @@ f @@ g @@ h :
        a \in Opt("rule_name", {"", "PCI-3.4"}),
        b \in Opt("rule_id", {"PCI_3_4"}),
        c \in Opt("description", {"Cardholder Data Protection"}),
        d \in Opt("message", {"Card number in code"}),
        e \in Opt("line_number", {0, 3}),
        f \in Opt("line", {0, 7}),
        g \in Opt("remediation", {"Use tokenization."}),
        h \in Opt("recommendation", {"Tokenize"})}

RenderIdle ==
    /\ rIssue = [severity |-> "high"]
    /\ rCard = Null
    /\ rPhase = "idle"

\* issues.map((issue, index) => ...) on one issue
RenderIssue ==
    /\ rPhase = "props"
    /\ rCard' = IssueCard(rIssue)
    /\ rPhase' = "rendered"
    /\ UNCHANGED rIssue

\* SeverityBar: const total = counts.critical + counts.high + ...
SeverityBarTotal(counts) ==
    counts.critical + counts.high + counts.medium + counts.low

-----------------------------------------------------------------------------
(* DemoTerminal                                                            *)

MaxMounts == 5      \* times the landing page mounts the terminal

\* terminalLines: the delay of each line, 0 where the line gives none
terminalLines == <<0, 800, 1200, 1600, 2000, 2400, 2800, 3000, 3400>>

\* line.delay || index * 400, with the index counted from 0
DelayOf(i) ==
    IF terminalLines[i] # 0 THEN terminalLines[i] ELSE (i - 1) * 400

\* const shouldRestart = visibleLines === 0
shouldRestart == visibleLines = 0

Max(a, b) == IF a >= b THEN a ELSE b

\* the dependency array [shouldRestart] as the effect last saw it
DepOf(b) == IF b THEN "true" ELSE "false"

TermIdle ==
    /\ tMounted = FALSE
    /\ visibleLines = 0
    /\ isTyping = TRUE
    /\ tTimers = {}
    /\ tReset = FALSE
    /\ tDep = "none"
    /\ nMounts = 0

\* the component is mounted: fresh state, the effect has not run yet
TerminalMount ==
    /\ ~ tMounted
    /\ nMounts < MaxMounts
    /\ tMounted' = TRUE
    /\ visibleLines' = 0
    /\ isTyping' = TRUE
    /\ tTimers' = {}
    /\ tReset' = FALSE
    /\ tDep' = "none"
    /\ nMounts' = nMounts + 1

\* useEffect(..., [shouldRestart]): after a render in which shouldRestart
\* differs from the last run, the cleanup of the last run clears its timers,
\* then the effect runs and schedules one timer per line when shouldRestart
RunEffect ==
    /\ tMounted
    /\ tDep # DepOf(shouldRestart)
    /\ tTimers' = IF shouldRestart THEN DOMAIN terminalLines ELSE {}
    /\ tDep' = DepOf(shouldRestart)
    /\ UNCHANGED <<tMounted, visibleLines, isTyping, tReset, nMounts>>

\* the scheduled line timer that is due first fires
LineTimer ==
    /\ tMounted
    /\ tTimers # {}
    /\ LET i == CHOOSE k \in tTimers :
                    \A j \in tTimers : DelayOf(k) <= DelayOf(j)
       IN  /\ visibleLines' = Max(visibleLines, i)
           /\ tTimers' = tTimers \ {i}
           /\ IF i = Len(terminalLines)
              THEN isTyping' = FALSE /\ tReset' = TRUE
              ELSE UNCHANGED <<isTyping, tReset>>
    /\ UNCHANGED <<tMounted, tDep, nMounts>>

\* the inner timeout fires: setVisibleLines(0); setIsTyping(true)
ResetTimer ==
    /\ tMounted
    /\ tReset
    /\ visibleLines' = 0
    /\ isTyping' = TRUE
    /\ tReset' = FALSE
    /\ UNCHANGED <<tMounted, tTimers, tDep, nMounts>>

\* the component is unmounted: the cleanup clears the line timers; the inner
\* timeout is not cleared, it acts on the state of the unmounted instance
TerminalUnmount ==
    /\ tMounted
    /\ tMounted' = FALSE
    /\ visibleLines' = 0
    /\ isTyping' = TRUE
    /\ tTimers' = {}
    /\ tReset' = FALSE
    /\ tDep' = "none"
    /\ UNCHANGED nMounts

-----------------------------------------------------------------------------
(* Token management of lib/api.ts                                          *)

\* A plausible slip: a null token leaves the stored token in place
setAuthToken_KeepStored(t) ==
    /\ authToken' = t
    /\ localStorage' = IF t # "" THEN t ELSE localStorage

\* setAuthToken(token): setItem for a truthy token, removeItem otherwise
setAuthToken(t) ==
    /\ authToken' = t
    /\ localStorage' = IF t # "" THEN t ELSE ""

\* A plausible slip: the module variable is returned without reading the store
getAuthToken_Cached == authToken

\* getAuthToken(): authToken = localStorage.getItem('auth_token')
getAuthToken == localStorage

NoAuthorization == [scheme |-> "", credentials |-> ""]

\* getHeaders(includeContentType), given what getAuthToken() returned
getHeaders(includeContentType, tok) ==
    [contentType   |-> IF includeContentType THEN "application/json" ELSE "",
     authorization |-> IF tok # "" THEN [scheme |-> "Bearer", credentials |-> tok]
                       ELSE NoAuthorization]

\* the endpoints whose call builds no headers, and those that use getHeaders
PublicCalls == {"getHealth", "getRoles"}
AuthedCalls == {"executeTask", "getTaskHistory", "checkCompliance", "scanCode"}

\* fetch(url, {headers: getHeaders(...)}) or fetch(url) of one api call
ApiCall(ep) ==
    /\ IF ep \in PublicCalls
       THEN /\ apiRequest' = [endpoint |-> ep,
                              headers |-> getHeaders(FALSE, "")]
            /\ UNCHANGED authToken
       ELSE /\ apiRequest' = [endpoint |-> ep,
                              headers |-> getHeaders(ep # "getTaskHistory",
                                                     getAuthToken)]
            /\ authToken' = getAuthToken
    /\ UNCHANGED <<aPhase, token, isLoading, error, localStorage, aDeps,
                   nAutoReq, nLoginReq, aHist, aThrown, nAuthCalls>>

\* what POST /auth/token may end with
AccessTokens == {"tokA", "tokB"}

LoginResponses ==
    {[net |-> TRUE, ok |-> FALSE, json |-> FALSE, detail |-> "", access_token |-> ""]}
    \cup {[net |-> FALSE, ok |-> FALSE, json |-> j, detail |-> d, access_token |-> ""] :
            j \in BOOLEAN, d \in {"", "Invalid credentials"}}
    \cup {[net |-> FALSE, ok |-> TRUE, json |-> TRUE, detail |-> "", access_token |-> t] :
            t \in AccessTokens}

\* login(username, password) of lib/api.ts once fetch has ended: what it
\* throws or returns; on success it has called setAuthToken(data.access_token)
apiLogin(resp) ==
    IF resp.net THEN Outcome(TRUE, "Failed to fetch", "")
    ELSE IF ~ resp.ok
         THEN LET detail == IF resp.json THEN resp.detail ELSE "Login failed"
              IN  Outcome(TRUE, IF detail # "" THEN detail ELSE "Login failed", "")
         ELSE Outcome(FALSE, "", resp.access_token)

\* the headers of the login request: Content-Type and nothing else
LoginHeaders == getHeaders(TRUE, "")

-----------------------------------------------------------------------------
(* AuthProvider                                                            *)

MaxAuthCalls == 2   \* calls of login() and logout() by the application

\* what localStorage holds when the provider mounts
StoredTokens == {"", "tok0"}

AuthIdle ==
    /\ aPhase = "unmounted"
    /\ token = ""
    /\ isLoading = TRUE
    /\ error = ""
    /\ localStorage = ""
    /\ authToken = ""
    /\ aDeps = <<"", TRUE>>
    /\ nAutoReq = 0
    /\ nLoginReq = 0
    /\ aHist = "none"
    /\ aThrown = ""
    /\ apiRequest = Null
    /\ nAuthCalls = 0

\* the first render of the provider
ProviderRender ==
    /\ aPhase = "unmounted"
    /\ aPhase' = "rendered"
    /\ UNCHANGED <<token, isLoading, error, localStorage, authToken, aDeps,
                   nAutoReq, nLoginReq, aHist, aThrown, apiRequest, nAuthCalls>>

\* the effects after the first render: the stored token is loaded, and the
\* auto-login effect sees token null and isLoading true
MountEffects ==
    /\ aPhase = "rendered"
    /\ authToken' = getAuthToken
    /\ token' = IF getAuthToken # "" THEN getAuthToken ELSE token
    /\ isLoading' = FALSE
    /\ aDeps' = <<token, isLoading>>
    /\ aPhase' = "ready"
    /\ UNCHANGED <<error, localStorage, nAutoReq, nLoginReq, aHist, aThrown,
                   apiRequest, nAuthCalls>>

\* fetch(`/auth/token`, {method: 'POST', headers: {'Content-Type': ...}})
LoginRequest == [endpoint |-> "login", headers |-> LoginHeaders]

\* A plausible slip: the auto-login does not wait for a cleared token
autoLogin_Never ==
    /\ aPhase = "ready"
    /\ aDeps # <<token, isLoading>>
    /\ aDeps' = <<token, isLoading>>
    /\ UNCHANGED <<aPhase, token, isLoading, error, localStorage, authToken,
                   nAutoReq, nLoginReq, aHist, aThrown, apiRequest, nAuthCalls>>

\* useEffect(() => { autoLogin() }, [token, isLoading]) up to the await:
\* runs after a render in which token or isLoading changed
autoLogin ==
    /\ aPhase = "ready"
    /\ aDeps # <<token, isLoading>>
    /\ aDeps' = <<token, isLoading>>
    /\ IF token = "" /\ ~ isLoading
       THEN /\ nAutoReq' = nAutoReq + 1
            /\ apiRequest' = LoginRequest
            /\ aHist' = "autoIssued"
       ELSE UNCHANGED <<nAutoReq, apiRequest, aHist>>
    /\ UNCHANGED <<aPhase, token, isLoading, error, localStorage, authToken,
                   nLoginReq, aThrown, nAuthCalls>>

\* autoLogin after the await: setToken(newToken); setError(null), or the
\* catch that only logs
autoLoginSettles(resp) ==
    /\ nAutoReq > 0
    /\ nAutoReq' = nAutoReq - 1
    /\ LET out == apiLogin(resp)
       IN  IF out.threw
           THEN UNCHANGED <<token, error, localStorage, authToken, aHist>>
           ELSE /\ setAuthToken(out.value)
                /\ token' = out.value
                /\ error' = ""
                /\ aHist' = IF aHist = "autoIssued" THEN "reauth" ELSE aHist
    /\ UNCHANGED <<aPhase, isLoading, aDeps, nLoginReq, aThrown, apiRequest,
                   nAuthCalls>>

\* login(username, password) of the provider up to the await
login ==
    /\ aPhase = "ready"
    /\ nAuthCalls < MaxAuthCalls
    /\ nAuthCalls' = nAuthCalls + 1
    /\ isLoading' = TRUE
    /\ error' = ""
    /\ nLoginReq' = nLoginReq + 1
    /\ apiRequest' = LoginRequest
    /\ aHist' = "none"
    /\ aThrown' = ""
    /\ UNCHANGED <<aPhase, token, localStorage, authToken, aDeps, nAutoReq>>

\* A plausible slip: a failed login clears the token
loginSettles_ClearOnFail(resp) ==
    /\ nLoginReq > 0
    /\ nLoginReq' = nLoginReq - 1
    /\ LET out == apiLogin(resp)
       IN  IF out.threw
           THEN /\ error' = out.message
                /\ aThrown' = out.message
                /\ token' = ""
                /\ UNCHANGED <<localStorage, authToken>>
           ELSE /\ setAuthToken(out.value)
                /\ token' = out.value
                /\ aThrown' = ""
                /\ UNCHANGED error
    /\ isLoading' = FALSE
    /\ UNCHANGED <<aPhase, aDeps, nAutoReq, aHist, apiRequest, nAuthCalls>>

\* login after the await: setToken(newToken), or setError(message) and
\* rethrow; finally setIsLoading(false)
loginSettles(resp) ==
    /\ nLoginReq > 0
    /\ nLoginReq' = nLoginReq - 1
    /\ LET out == apiLogin(resp)
       IN  IF out.threw
           THEN /\ error' = out.message
                /\ aThrown' = out.message
                /\ UNCHANGED <<token, localStorage, authToken>>
           ELSE /\ setAuthToken(out.value)
                /\ token' = out.value
                /\ aThrown' = ""
                /\ UNCHANGED error
    /\ isLoading' = FALSE
    /\ UNCHANGED <<aPhase, aDeps, nAutoReq, aHist, apiRequest, nAuthCalls>>

\* A plausible slip: logout forgets the provider state
logout_StorageOnly ==
    /\ aPhase = "ready"
    /\ nAuthCalls < MaxAuthCalls
    /\ nAuthCalls' = nAuthCalls + 1
    /\ setAuthToken("")
    /\ aHist' = IF token # "" THEN "loggedOut" ELSE aHist
    /\ UNCHANGED <<aPhase, token, isLoading, error, aDeps, nAutoReq, nLoginReq,
                   aThrown, apiRequest>>

\* logout(): setAuthToken(null); setToken(null)
logout ==
    /\ aPhase = "ready"
    /\ nAuthCalls < MaxAuthCalls
    /\ nAuthCalls' = nAuthCalls + 1
    /\ setAuthToken("")
    /\ token' = ""
    /\ aHist' = IF token # "" THEN "loggedOut" ELSE aHist
    /\ UNCHANGED <<aPhase, isLoading, error, aDeps, nAutoReq, nLoginReq,
                   aThrown, apiRequest>>

-----------------------------------------------------------------------------
(* The report download of the compliance page                              *)

DlIdle == report = Null

\* handleDownloadReport: if (scanResults) { report = {timestamp, standards:
\* selectedStandards, passed, summary, issues}; ... a.click() }; the
\* timestamp and the file name come from the clock and are left out
handleDownloadReport ==
    /\ scanResults # Null
    /\ report' = [standards |-> selectedStandards,
                  passed    |-> scanResults.passed,
                  summary   |-> scanResults.summary,
                  issues    |-> scanResults.issues]

-----------------------------------------------------------------------------
(* The app store: selectedStandards and toggleStandard                     *)

\* selectedStandards: ['PCI-DSS']
StoreIdle == storeStandards = <<"PCI-DSS">>

\* the checkboxes of TaskInput
complianceStandards == <<"PCI-DSS", "RBI", "DPDP">>

\* includes(standard) ? filter((s) => s !== standard) : [...selected, standard]
StoreToggled(selected, standard) ==
    IF standard \in Range(selected)
    THEN SelectSeq(selected, LAMBDA x : x # standard)
    ELSE Append(selected, standard)

\* toggleStandard: (standard) => set((state) => ({selectedStandards: ...}))
storeToggleStandard(standard) ==
    storeStandards' = StoreToggled(storeStandards, standard)

-----------------------------------------------------------------------------
(* DashboardPage: handleExecute and the simulated agents                   *)

MaxRuns == 2        \* runs of handleExecute

\* the delays of setTimeout in units of 800 ms: (index + 1) * 800 for the
\* agent of 0-based index, 4000 for the reset
DoneDelay(i) == i
ResetDelay == 5

Agent(role, state, task) == [role |-> role, state |-> state, task |-> task]

defaultAgents ==
    << Agent("fintech_architect", "idle", ""),
       Agent("fintech_coder", "idle", ""),
       Agent("security", "idle", ""),
       Agent("compliance", "idle", ""),
       Agent("tester", "idle", ""),
       Agent("reviewer", "idle", ""),
       Agent("pm", "idle", "") >>

activeAgents ==
    <<"fintech_architect", "fintech_coder", "security", "compliance", "tester">>

\* prev.map((agent) => test(agent.role) ? {...agent, state} : agent)
SetState(prev, roles, state) ==
    [i \in DOMAIN prev |->
        IF prev[i].role \in roles THEN [prev[i] EXCEPT !.state = state]
        ELSE prev[i]]

\* the first setAgents of simulateAgentExecution
StartAgents(prev) ==
    [i \in DOMAIN prev |->
        IF prev[i].role \in Range(activeAgents)
        THEN Agent(prev[i].role, "working", "Processing...")
        ELSE prev[i]]

Timer(left, kind, role, run) ==
    [left |-> left, kind |-> kind, role |-> role, run |-> run]

\* activeAgents.forEach((role, index) => setTimeout(..., (index + 1) * 800))
DoneTimers(run) ==
    [i \in DOMAIN activeAgents |-> Timer(DoneDelay(i), "done", activeAgents[i], run)]

DashIdle ==
    /\ agents = defaultAgents
    /\ taskResult = Null
    /\ dToast = <<>>
    /\ pendingTask = Null
    /\ timers = <<>>
    /\ nRuns = 0
    /\ runLog = <<>>

Tasks == {"build a payment api"}

\* TaskInput: the Execute button is disabled={!task.trim() || isLoading};
\* handleExecute up to the await: simulateAgentExecution() and the request
handleExecute(task) ==
    /\ pendingTask = Null
    /\ nRuns < MaxRuns
    /\ nRuns' = nRuns + 1
    /\ agents' = StartAgents(agents)
    /\ timers' = timers \o DoneTimers(nRuns + 1)
    /\ pendingTask' = [task |-> task, vertical |-> "fintech", use_rag |-> TRUE,
                       compliance_standards |-> storeStandards]
    /\ UNCHANGED <<taskResult, dToast, runLog>>

\* one section of the output text between two '## ' headers
Section(header, content) == [header |-> header, content |-> content]

\* the output texts of a TaskResponse, as the sections split(/^## /gm) yields
Outputs ==
    { <<>>,
      << Section("security", "no findings"),
         Section("Knowledge Base Sources", "pci_dss_requirements.md") >>,
      << Section("Knowledge Base Sources", "pci_dss_requirements.md") >> }

AgentsUsed == { Undefined, <<"fintech_coder", "reviewer">> }

\* what POST /task/execute may answer
TaskResponses ==
    { [ok |-> FALSE, status |-> 500] }
    \cup { [ok |-> TRUE, status |-> 200,
            body |-> [success |-> su, output |-> out, agents_used |-> au]]
           : su \in BOOLEAN, out \in Outputs, au \in AgentsUsed }

\* api.executeTask once fetch has ended: throws unless res.ok
executeTask(resp) ==
    IF ~ resp.ok THEN Outcome(TRUE, "Failed to execute task", Null)
    ELSE Outcome(FALSE, "", resp.body)

\* parseAgentOutputs: the sections with a name and a content, without the
\* knowledge base sources, in the order of the text; the whole text under
\* 'output' when there is none
parseAgentOutputs(output) ==
    LET parsed == SelectSeq(output,
                     LAMBDA sec : /\ sec.header # "Knowledge Base Sources"
                                  /\ sec.header # ""
                                  /\ sec.content # "")
    IN  IF parsed = <<>> /\ output # <<>>
        THEN << Section("output", "the whole text") >>
        ELSE parsed

\* result.agents_used || []
UsedOrNone(result) ==
    IF result.agents_used = Undefined THEN <<>> ELSE result.agents_used

TaskResultOf(task, result) ==
    [task |-> task, agents_used |-> UsedOrNone(result),
     outputs |-> parseAgentOutputs(result.output), demo |-> FALSE]

\* the literal demoResult of the catch branch
demoResult(task) ==
    [task |-> task, agents_used |-> activeAgents,
     outputs |-> << Section("fintech_architect", "## Payment System Architecture"),
                    Section("fintech_coder", "## Implementation"),
                    Section("security", "## Security Review") >>,
     demo |-> TRUE]

\* handleExecute after the await, the call having returned
handleExecuteResolve(resp) ==
    /\ pendingTask # Null
    /\ ~ executeTask(resp).threw
    /\ LET result == executeTask(resp).value
       IN  IF result.success /\ result.output # <<>>
           THEN /\ taskResult' = TaskResultOf(pendingTask.task, result)
                /\ dToast' = Append(dToast, "Task Completed")
                /\ agents' = IF result.agents_used # Undefined
                             THEN SetState(agents, Range(result.agents_used), "done")
                             ELSE agents
           ELSE UNCHANGED <<taskResult, dToast, agents>>
    /\ pendingTask' = Null
    /\ runLog' = Append(runLog, "returned")
    /\ UNCHANGED <<timers, nRuns>>

\* A plausible slip: the reset waits 3200 ms, less than the last agent
handleExecuteReject_EarlyReset(resp) ==
    /\ pendingTask # Null
    /\ executeTask(resp).threw
    /\ taskResult' = demoResult(pendingTask.task)
    /\ dToast' = Append(dToast, "Demo Mode")
    /\ timers' = Append(timers, Timer(ResetDelay - 1, "reset", "", nRuns))
    /\ pendingTask' = Null
    /\ runLog' = Append(runLog, "threw")
    /\ UNCHANGED <<agents, nRuns>>

\* handleExecute after the await, the call having thrown: the catch branch
handleExecuteReject(resp) ==
    /\ pendingTask # Null
    /\ executeTask(resp).threw
    /\ taskResult' = demoResult(pendingTask.task)
    /\ dToast' = Append(dToast, "Demo Mode")
    /\ timers' = Append(timers, Timer(ResetDelay, "reset", "", nRuns))
    /\ pendingTask' = Null
    /\ runLog' = Append(runLog, "threw")
    /\ UNCHANGED <<agents, nRuns>>

\* the timers whose delay has run out
Due == {i \in DOMAIN timers : timers[i].left = 0}

RemoveAt(s, i) == SubSeq(s, 1, i - 1) \o SubSeq(s, i + 1, Len(s))

\* the browser runs the due timer that was scheduled first
TimerFires ==
    /\ Due # {}
    /\ LET i == CHOOSE j \in Due : \A k \in Due : j <= k
           t == timers[i]
       IN  /\ agents' = IF t.kind = "done" THEN SetState(agents, {t.role}, "done")
                        ELSE defaultAgents
           /\ timers' = RemoveAt(timers, i)
    /\ UNCHANGED <<taskResult, dToast, pendingTask, nRuns, runLog>>

\* 800 ms pass with no timer due
Tick ==
    /\ timers # <<>>
    /\ Due = {}
    /\ timers' = [i \in DOMAIN timers |-> [timers[i] EXCEPT !.left = @ - 1]]
    /\ UNCHANGED <<agents, taskResult, dToast, pendingTask, nRuns, runLog>>

RestIdle == DlIdle /\ DashIdle /\ StoreIdle

-----------------------------------------------------------------------------
(* Specifications                                                          *)

\* the compliance page and its API calls
Init == PageInit /\ EngIdle /\ LuhnIdle /\ RenderIdle /\ TermIdle /\ AuthIdle
           /\ RestIdle

Next ==
    \/ (\E c \in PageCodes : SetCode(c)) /\ UNCHANGED notPageVars
    \/ (\E i \in DOMAIN standards : toggleStandard(standards[i]))
          /\ UNCHANGED notPageVars
    \/ handleScan /\ UNCHANGED notPageVars
    \/ handleScanResolve /\ UNCHANGED notPageVars
    \/ handleScanReject /\ UNCHANGED notPageVars
    \/ handleDownloadReport /\ UNCHANGED notDlVars

Spec == Init /\ [][Next]_vars

\* the page next to another caller of api.checkCompliance
NextClient ==
    \/ (\E b \in ClientBodies : ClientCall(b)) /\ UNCHANGED notPageVars
    \/ (\E c \in ScanCodes : ClientScan(c)) /\ UNCHANGED notPageVars
    \/ ClientDrop /\ UNCHANGED notPageVars
    \/ (\E c \in PageCodes : SetCode(c)) /\ UNCHANGED notPageVars
    \/ handleScan /\ UNCHANGED notPageVars
    \/ handleScanResolve /\ UNCHANGED notPageVars
    \/ handleScanReject /\ UNCHANGED notPageVars

SpecClient == Init /\ [][NextClient]_vars

\* one Scan call inside the engine
NextEngine ==
    \/ (\E c \in Codes, s \in EngineStandards : ScanStart(c, s))
          /\ UNCHANGED notEngVars
    \/ WorkerStart /\ UNCHANGED notEngVars
    \/ (\E r \in RuleIds : WorkerComplete(r)) /\ UNCHANGED notEngVars
    \/ (\E r \in RuleIds : WorkerFault(r)) /\ UNCHANGED notEngVars
    \/ ScanFinish /\ UNCHANGED notEngVars
    \/ ScanTimeout /\ UNCHANGED notEngVars

SpecEngine == Init /\ [][NextEngine]_vars

\* the checksum matcher on every candidate
InitLuhn ==
    /\ PageInit
    /\ EngIdle
    /\ RenderIdle
    /\ TermIdle
    /\ AuthIdle
    /\ RestIdle
    /\ pan \in Candidates
    /\ lPhase = "input"
    /\ lFindings = <<>>

NextLuhn == ScanCandidate /\ UNCHANGED notLuhnVars

SpecLuhn == InitLuhn /\ [][NextLuhn]_vars

\* the ScanResults component on every issue
InitRender ==
    /\ PageInit
    /\ EngIdle
    /\ LuhnIdle
    /\ TermIdle
    /\ AuthIdle
    /\ RestIdle
    /\ rIssue \in PropIssues
    /\ rCard = Null
    /\ rPhase = "props"

NextRender == RenderIssue /\ UNCHANGED notRenderVars

SpecRender == InitRender /\ [][NextRender]_vars

\* the DemoTerminal on the landing page; a scheduled timer and a pending
\* effect both happen in the end, in an order the browser chooses
NextTerminal ==
    \/ TerminalMount /\ UNCHANGED notTermVars
    \/ RunEffect /\ UNCHANGED notTermVars
    \/ LineTimer /\ UNCHANGED notTermVars
    \/ ResetTimer /\ UNCHANGED notTermVars
    \/ TerminalUnmount /\ UNCHANGED notTermVars

\* the AuthProvider, the token store and the api calls; a pending effect
\* runs and a request in flight ends
InitAuth ==
    /\ PageInit /\ EngIdle /\ LuhnIdle /\ RenderIdle /\ TermIdle /\ RestIdle
    /\ aPhase = "unmounted"
    /\ token = ""
    /\ isLoading = TRUE
    /\ error = ""
    /\ localStorage \in StoredTokens
    /\ authToken = ""
    /\ aDeps = <<"", TRUE>>
    /\ nAutoReq = 0
    /\ nLoginReq = 0
    /\ aHist = "none"
    /\ aThrown = ""
    /\ apiRequest = Null
    /\ nAuthCalls = 0

NextAuth ==
    \/ ProviderRender /\ UNCHANGED notAuthVars
    \/ MountEffects /\ UNCHANGED notAuthVars
    \/ autoLogin /\ UNCHANGED notAuthVars
    \/ (\E resp \in LoginResponses : autoLoginSettles(resp))
          /\ UNCHANGED notAuthVars
    \/ login /\ UNCHANGED notAuthVars
    \/ (\E resp \in LoginResponses : loginSettles(resp)) /\ UNCHANGED notAuthVars
    \/ logout /\ UNCHANGED notAuthVars
    \/ (\E ep \in PublicCalls \cup AuthedCalls : ApiCall(ep))
          /\ UNCHANGED notAuthVars

SpecAuth ==
    /\ InitAuth
    /\ [][NextAuth]_vars
    /\ WF_vars(MountEffects /\ UNCHANGED notAuthVars)
    /\ WF_vars(autoLogin /\ UNCHANGED notAuthVars)
    /\ WF_vars((\E resp \in LoginResponses : autoLoginSettles(resp))
                  /\ UNCHANGED notAuthVars)
    /\ WF_vars((\E resp \in LoginResponses : loginSettles(resp))
                  /\ UNCHANGED notAuthVars)

\* the dashboard: runs of handleExecute, the answers of the API and the
\* timers; a due timer runs, time passes and a pending call ends
NextDash ==
    \/ (\E task \in Tasks : handleExecute(task)) /\ UNCHANGED notDashVars
    \/ (\E resp \in TaskResponses : handleExecuteResolve(resp))
          /\ UNCHANGED notDashVars
    \/ (\E resp \in TaskResponses : handleExecuteReject(resp))
          /\ UNCHANGED notDashVars
    \/ TimerFires /\ UNCHANGED notDashVars
    \/ Tick /\ UNCHANGED notDashVars

SpecDash ==
    /\ Init
    /\ [][NextDash]_vars
    /\ WF_vars((\E resp \in TaskResponses : handleExecuteResolve(resp))
                  /\ UNCHANGED notDashVars)
    /\ WF_vars((\E resp \in TaskResponses : handleExecuteReject(resp))
                  /\ UNCHANGED notDashVars)
    /\ WF_vars(TimerFires /\ UNCHANGED notDashVars)
    /\ WF_vars(Tick /\ UNCHANGED notDashVars)

\* the two selections of standards under toggleStandard
NextToggle ==
    \/ (\E i \in DOMAIN standards : toggleStandard(standards[i]))
          /\ UNCHANGED notPageVars
    \/ (\E i \in DOMAIN complianceStandards :
            storeToggleStandard(complianceStandards[i]))
          /\ UNCHANGED notStoreVars

SpecToggle == Init /\ [][NextToggle]_vars

SpecTerminal ==
    /\ Init
    /\ [][NextTerminal]_vars
    /\ WF_vars(RunEffect /\ UNCHANGED notTermVars)
    /\ WF_vars(LineTimer /\ UNCHANGED notTermVars)
    /\ WF_vars(ResetTimer /\ UNCHANGED notTermVars)

-----------------------------------------------------------------------------
(* Properties                                                              *)

\* the result the page shows came from the API (not the demo fallback)
ShownFromApi == scanResults # Null /\ lastOutcome.kind = "ok"

\* the scan behind the result the page shows ran every active rule to its end
ShownFromFullScan ==
    /\ ShownFromApi
    /\ ~ lastOutcome.timedOut
    /\ lastOutcome.completed = Resolve(lastReq.standards)

\* issues(Scan(c, S)) when nothing faults
IssuesOf(c, S) == Aggregate(ChanOf(InRegistryOrder(ActiveRules(S)), c)).issues

\* C1: every ScanResult the page holds, from the API or from the demo
\* fallback, has passed exactly when its issues list is empty.
C1_PassedIffNoIssues ==
    scanResults # Null =>
        (scanResults.passed <=> Len(scanResults.issues) = 0)

\* handleScan fell back to the demo result, which reports a failure
C1_DemoInstalled ==
    /\ lastOutcome.kind = "failed"
    /\ scanResults # Null
    /\ ~ scanResults.passed
    /\ Len(scanResults.issues) > 0

\* C2: in every ScanResult the four summary counts add up to the number of
\* issues, and the count in the 'Issues Found' toast is the count of the
\* 'FAILED (n issues)' header.
C2_SummaryAddsUp ==
    scanResults # Null =>
        /\ SumValues(scanResults.summary) = Len(scanResults.issues)
        /\ toast.title = "Issues Found" =>
              toast.count = Len(scanResults.issues)

\* the page announced issues of more than one severity
C2_IssuesAnnounced ==
    /\ scanResults # Null
    /\ toast # Null
    /\ toast.title = "Issues Found"
    /\ toast.count > 1
    /\ scanResults.summary.critical > 0
    /\ scanResults.summary.high > 0

\* C3: the issues list the page displays is sorted by severity rank, then
\* line number, then rule id: no issue is before its predecessor.
C3_IssuesSorted ==
    scanResults # Null =>
        \A i \in 1..(Len(scanResults.issues) - 1) :
            ~ IssueBefore(scanResults.issues[i + 1], scanResults.issues[i])

\* a run of handleScan ends for the request the run before it sent
SameRequestSettles ==
    /\ inflight # Null
    /\ inflight' = Null
    /\ lastReq # Null
    /\ lastReq = inflight

StandardSets == SUBSET Range(standards)

\* C5 as stated: for all standard sets S \subseteq S2, the empty S included,
\* the issues of the scan with S are among the issues of the scan with S2.
C5_MonotoneInStandards ==
    ShownFromFullScan =>
        \A S2 \in StandardSets :
            Range(lastReq.standards) \subseteq S2 =>
                Range(scanResults.issues) \subseteq Range(IssuesOf(lastReq.code, S2))

\* C5 amended: for all non-empty standard sets S \subseteq S2, the issues of
\* the scan with S are among the issues of the scan with S2; the empty S
\* activates every rule and is not below any other set.
C5_MonotoneInNonEmptyStandards ==
    ShownFromFullScan =>
        \A S2 \in StandardSets :
            (/\ Range(lastReq.standards) # {}
             /\ Range(lastReq.standards) \subseteq S2) =>
                Range(scanResults.issues) \subseteq Range(IssuesOf(lastReq.code, S2))

\* a scan with one standard found issues, and a wider set finds more
C5_NarrowScanShown ==
    /\ ShownFromFullScan
    /\ lastReq.standards = <<"RBI">>
    /\ Len(scanResults.issues) > 0
    /\ Len(IssuesOf(lastReq.code, {"RBI", "PCI-DSS"})) > Len(scanResults.issues)

\* the request of a caller has no code, or the empty string as code
NoCode(req) == ~ req.hasCode \/ TextOf(req.code) = EmptyCode

\* C6: after a POST /compliance/check with empty or missing code the caller
\* holds an error and no scan result; the page never sends such a request,
\* so it never shows a result for one.
C6_EmptyCodeRejected ==
    /\ clientOutcome # Null =>
          (NoCode(clientOutcome.req) =>
              /\ clientOutcome.out.threw
              /\ clientOutcome.out.value = Null)
    /\ inflight # Null => ~ NoCode(inflight)
    /\ lastReq # Null => ~ NoCode(lastReq)

\* a caller posted a body without code and holds the error
C6_RejectedCall ==
    /\ clientOutcome # Null
    /\ ~ clientOutcome.req.hasCode
    /\ clientOutcome.out.threw
    /\ clientOutcome.out.message = "Failed to check compliance"

\* the findings of a set of rules on a text, as one clean scan reports them
FindingsOf(ids, c) == Aggregate(ChanOf(InRegistryOrder(ids), c))

\* C7: a scan in which rules faulted (and whose overall budget held) ends
\* with exactly the findings of the other active rules, and passes exactly
\* when those rules found nothing.
C7_FaultIsolation ==
    (ePhase = "done" /\ ~ eTimedOut) =>
        /\ eResult = FindingsOf(eActive \ eFaulted, eCode)
        /\ eResult.passed <=>
              \A id \in eActive \ eFaulted : BatchTable[eCode][id].matches = <<>>

\* a rule with matches faulted and the scan ended with the other findings
C7_FaultedRuleDropped ==
    /\ ePhase = "done"
    /\ ~ eTimedOut
    /\ \E id \in eFaulted : BatchTable[eCode][id].matches # <<>>
    /\ Len(eResult.issues) > 1

\* C8: a scan whose overall budget ran out is told apart from a clean scan:
\* what the caller holds is not the clean result (passed: true, issues: []).
C8_TruncatedToldApart ==
    (ShownFromApi /\ lastOutcome.timedOut) => scanResults # ScanResult(<<>>)

\* C9: the result does not depend on the order in which the workers
\* completed: it is the result of the same rules completing in registry order.
C9_CompletionOrderIrrelevant ==
    ePhase = "done" => eResult = FindingsOf(Range(eChan), eCode)

\* the workers completed out of registry order and several rules had findings
C9_OutOfOrder ==
    /\ ePhase = "done"
    /\ eChan # InRegistryOrder(Range(eChan))
    /\ \E i, j \in DOMAIN eResult.issues :
          eResult.issues[i].rule_name # eResult.issues[j].rule_name

\* Luhn mod 10: from the right, every second digit is doubled and replaced by
\* its digit sum; the total is divisible by 10
LuhnMod10(digits) ==
    LET n == Len(digits)
        Weighted(i) ==
            LET d == IntOf(digits[i])
            IN  IF (n - i) % 2 = 1
                THEN (IF 2 * d > 9 THEN 2 * d - 9 ELSE 2 * d)
                ELSE d
    IN  SumSeq([i \in 1..n |-> Weighted(i)]) % 10 = 0

\* C10: a candidate digit run yields a PCI-3.4 finding only if its digits pass
\* the Luhn mod-10 checksum; 4111111111111112 yields none, 4111111111111111
\* yields one.
C10_ChecksumGuard ==
    lPhase = "scanned" =>
        /\ lFindings # <<>> =>
              /\ LuhnMod10(CleanCardNumber(pan))
              /\ \A i \in DOMAIN lFindings : lFindings[i].rule_name = "PCI-3.4"
        /\ pan = PanInvalid => lFindings = <<>>
        /\ pan = PanValid => Len(lFindings) = 1

\* the canonical test PAN was scanned and reported
C10_TestPanReported ==
    /\ lPhase = "scanned"
    /\ pan = PanValid
    /\ Len(lFindings) = 1
    /\ lFindings[1].rule_name = "PCI-3.4"

\* sub occurs in s as a run of consecutive characters
Contains(s, sub) ==
    \E i \in 0..(Len(s) - Len(sub)) : SubSeq(s, i + 1, i + Len(sub)) = sub

\* the card numbers and secrets of a text: what the sensitive rules match
SensitiveLiterals(n) ==
    UNION { {BatchTable[n][id].matches[i].ev :
                i \in DOMAIN BatchTable[n][id].matches} :
            id \in {r \in RuleIds : RuleOf(r).sensitive} }

C12_FourBuckets ==
    scanResults # Null =>
        /\ DOMAIN scanResults.summary = Severities
        /\ \A sev \in Severities :
              scanResults.summary[sev] = CountSeverity(scanResults.issues, sev)
        /\ SeverityBarTotal(scanResults.summary) = Len(scanResults.issues)

\* a result with an empty bucket next to filled ones is shown
C12_EmptyBucketShown ==
    /\ scanResults # Null
    /\ scanResults.summary.low = 0
    /\ scanResults.summary.medium = 1
    /\ scanResults.summary.high > 1

\* a call of api.scanCode has ended
ScanCodeEnded == clientOutcome # Null /\ clientOutcome.via = "scanCode"

\* C13: api.scanCode sends the code and no standards list; what it returns is
\* what api.checkCompliance returns for the same code with standards omitted:
\* passed, issues and summary of a scan with every rule active.
C13_ScanCodeIsAlias ==
    ScanCodeEnded =>
        /\ clientOutcome.req.hasCode
        /\ ~ clientOutcome.req.hasStandards
        /\ ~ clientOutcome.out.threw =>
              /\ DOMAIN clientOutcome.out.value = {"passed", "issues", "summary"}
              /\ clientOutcome.out \in
                    {checkCompliance(r) :
                        r \in Responses(Body(clientOutcome.req.code, TRUE, <<>>, FALSE))}
              /\ (clientOutcome.completed = RuleIds /\ ~ clientOutcome.timedOut) =>
                    clientOutcome.out.value =
                        ResponseBody(FindingsOf(RuleIds, clientOutcome.req.code))

\* api.scanCode returned the findings of rules of several standards
C13_ScanCodeReturned ==
    /\ ScanCodeEnded
    /\ ~ clientOutcome.out.threw
    /\ clientOutcome.completed = RuleIds
    /\ \E i, j \in DOMAIN clientOutcome.out.value.issues :
          /\ clientOutcome.out.value.issues[i].rule_name = "PCI-3.4"
          /\ clientOutcome.out.value.issues[j].rule_name = "SEC-004"

\* a field of the issue is present and non-empty ('' and 0 count as empty)
HasStr(issue, f) == f \in DOMAIN issue /\ issue[f] # ""
HasNum(issue, f) == f \in DOMAIN issue /\ issue[f] # 0

AliasFields == {"rule_id", "message", "line", "recommendation"}

\* C14: for each displayed field the card shows the primary field when it is
\* present and non-empty and the alias only otherwise; an issue that carries
\* only the primary names is shown with all of them.
C14_PrimaryBeforeAlias ==
    rPhase = "rendered" =>
        /\ rCard.ruleName =
              IF HasStr(rIssue, "rule_name") THEN rIssue.rule_name
              ELSE StrField(rIssue, "rule_id")
        /\ rCard.description =
              IF HasStr(rIssue, "description") THEN rIssue.description
              ELSE StrField(rIssue, "message")
        /\ rCard.remediation =
              IF HasStr(rIssue, "remediation") THEN rIssue.remediation
              ELSE StrField(rIssue, "recommendation")
        /\ HasNum(rIssue, "line_number") =>
              rCard.line = [text |-> "Line", n |-> rIssue.line_number]
        /\ (~ HasNum(rIssue, "line_number") /\ HasNum(rIssue, "line")) =>
              rCard.line = [text |-> "Line", n |-> rIssue.line]
        /\ (/\ DOMAIN rIssue \cap AliasFields = {}
            /\ HasStr(rIssue, "rule_name") /\ HasStr(rIssue, "description")
            /\ HasStr(rIssue, "remediation") /\ HasNum(rIssue, "line_number")) =>
              rCard = [ruleName    |-> rIssue.rule_name,
                       description |-> rIssue.description,
                       evidence    |-> <<>>,
                       line        |-> [text |-> "Line", n |-> rIssue.line_number],
                       remediation |-> rIssue.remediation]

\* an issue with every primary field and every alias was rendered
C14_BothNamesRendered ==
    /\ rPhase = "rendered"
    /\ AliasFields \subseteq DOMAIN rIssue
    /\ HasStr(rIssue, "rule_name") /\ HasStr(rIssue, "description")
    /\ HasStr(rIssue, "remediation") /\ HasNum(rIssue, "line_number")
    /\ HasNum(rIssue, "line")
    /\ rCard.ruleName = "PCI-3.4"
    /\ rCard.line.n = 3

\* C15: from visibleLines = 0 the timers of a mounted terminal make all lines
\* visible with isTyping = false, and from there the terminal is reset to
\* visibleLines = 0 with isTyping = true, again and again.
C15_TerminalReplays ==
    /\ (tMounted /\ visibleLines = 0) ~>
          (~ tMounted \/ (visibleLines = Len(terminalLines) /\ ~ isTyping))
    /\ (tMounted /\ visibleLines = Len(terminalLines) /\ ~ isTyping) ~>
          (~ tMounted \/ (visibleLines = 0 /\ isTyping))

\* a call of logout() (the call of the application that sends no request)
LogoutStep == nAuthCalls' > nAuthCalls /\ nLoginReq' = nLoginReq

\* C16: logout() with a non-empty token clears the token in the provider and
\* in localStorage; once the provider then has no token and is not loading,
\* the auto-login effect issues a demo login request; when that request
\* succeeds the provider holds a token again with no login() call.
C16_LogoutThenAutoLogin ==
    /\ [][(LogoutStep /\ token # "") => (token' = "" /\ localStorage' = "")]_vars
    /\ (aHist = "loggedOut" /\ token = "" /\ ~ isLoading) ~>
          (aHist = "autoIssued" \/ token # "" \/ isLoading)
    /\ [](aHist = "reauth" => token # "")

\* the token of the render the auto-login effect last ran after
RenderedToken == aDeps[1]

\* C16 (amended): as C16, for a logout() of a token that a render has shown:
\* a token set and cleared again between two renders leaves the dependencies
\* of the effect as they were, and the effect does not run.
C16_RenderedLogoutThenAutoLogin ==
    /\ [][(LogoutStep /\ token # "") => (token' = "" /\ localStorage' = "")]_vars
    /\ (RenderedToken # "" /\ token = "" /\ ~ isLoading) ~>
          (aHist = "autoIssued" \/ token # "" \/ isLoading)
    /\ [](aHist = "reauth" => token # "")

\* after one logout and no login() the demo login brought a token back
C16_ReauthenticatedByAutoLogin ==
    /\ aHist = "reauth"
    /\ aDeps = <<"", FALSE>>
    /\ nAuthCalls = 1
    /\ token # ""
    /\ token = localStorage

\* C17: whenever the mount-time load is done and no login request is in
\* flight, the token of the provider and localStorage 'auth_token' agree.
C17_TokenAgreesWithStorage ==
    (aPhase = "ready" /\ nAutoReq = 0 /\ nLoginReq = 0) => token = localStorage

\* two calls later, with the requests ended, a token from a login is in both
C17_AgreeAfterCalls ==
    /\ aPhase = "ready"
    /\ nAutoReq = 0 /\ nLoginReq = 0
    /\ nAuthCalls = 2
    /\ token \in AccessTokens
    /\ token = localStorage

\* an api call has just built a request
RequestBuilt == apiRequest' # apiRequest

\* C18: a request built with getHeaders carries 'Authorization: Bearer <token>'
\* exactly when localStorage holds a non-empty auth_token at that moment, with
\* that token; getHealth, getRoles and login never carry the header.
C18_BearerIffStoredToken ==
    [][RequestBuilt =>
          IF apiRequest'.endpoint \in AuthedCalls
          THEN apiRequest'.headers.authorization =
                  IF localStorage # ""
                  THEN [scheme |-> "Bearer", credentials |-> localStorage]
                  ELSE NoAuthorization
          ELSE apiRequest'.headers.authorization = NoAuthorization]_vars

\* a request went out with the token of a login
C18_BearerSent ==
    /\ apiRequest # Null
    /\ apiRequest.endpoint = "executeTask"
    /\ apiRequest.headers.authorization.scheme = "Bearer"
    /\ apiRequest.headers.authorization.credentials \in AccessTokens

\* a login() call has just ended by throwing
LoginThrew == nLoginReq' < nLoginReq /\ aThrown' # ""

\* C19: api.login throws on every non-OK response; when a login() call ends
\* so, the stored token and the token of the provider are as before, error
\* holds the message that is thrown on, and isLoading is false.
C19_FailedLoginKeepsToken ==
    /\ \A resp \in LoginResponses :
          (~ resp.net /\ ~ resp.ok) =>
              /\ apiLogin(resp).threw
              /\ apiLogin(resp).message \in {"Invalid credentials", "Login failed"}
    /\ [][LoginThrew =>
             /\ token' = token
             /\ localStorage' = localStorage
             /\ authToken' = authToken
             /\ error' = aThrown'
             /\ ~ isLoading']_vars

\* a login() failed while the provider held a token
C19_FailedWithToken ==
    /\ aThrown = "Invalid credentials"
    /\ error = "Invalid credentials"
    /\ ~ isLoading
    /\ token # ""
    /\ token = localStorage

\* the page has just sent a compliance request
ScanStarted == inflight' # Null /\ inflight' # inflight

\* C20: the page starts handleScan only while the code has a non-whitespace
\* character and no compliance request is pending; so no request it sends has
\* empty or whitespace-only code, and a request is sent only when none is in
\* flight.
C20_ScanOnlyWithCode ==
    /\ [][ScanStarted =>
             /\ inflight = Null
             /\ ~ TrimIsEmpty(TextOf(code))
             /\ inflight'.hasCode
             /\ inflight'.code = code]_vars
    /\ [](inflight # Null => ~ TrimIsEmpty(TextOf(inflight.code)))
    /\ [](lastReq # Null => ~ TrimIsEmpty(TextOf(lastReq.code)))

\* the editor was emptied to whitespace while a scan of real code is pending
C20_BlankedWhileScanning ==
    /\ inflight # Null
    /\ code = "blank"
    /\ ~ TrimIsEmpty(TextOf(inflight.code))

\* a report has just been written
Downloaded == report' # report

\* C21: a downloaded report describes one scan: its standards are those of
\* the request whose passed, summary and issues it holds, whatever the user
\* toggled after that scan.
C21_ReportOfOneScan ==
    [][Downloaded =>
          /\ report'.passed = scanResults.passed
          /\ report'.summary = scanResults.summary
          /\ report'.issues = scanResults.issues
          /\ report'.standards = lastReq.standards]_vars

\* the executeTask call of a run has just completed
RunEnded == pendingTask # Null /\ pendingTask' = Null

Last(s) == s[Len(s)]

\* C22: every run of handleExecute informs the user of its outcome: when the
\* executeTask call completes, a toast is shown, 'Task Completed' with the
\* result of the task or 'Demo Mode' with the demo result, also when the
\* backend answers success = false or an empty output.
C22_EveryRunInforms ==
    [][RunEnded =>
          /\ Len(dToast') = Len(dToast) + 1
          /\ \/ /\ Last(dToast') = "Task Completed"
                /\ taskResult' # Null
                /\ ~ taskResult'.demo
                /\ taskResult'.task = pendingTask.task
             \/ /\ Last(dToast') = "Demo Mode"
                /\ taskResult' = demoResult(pendingTask.task)]_vars

StateOf(role) ==
    LET i == CHOOSE j \in DOMAIN agents : agents[j].role = role
    IN  agents[i].state

\* C23: timers of one handleExecute run never disturb a later run: while a
\* run's executeTask request is pending, each of the five simulated agents
\* is working or done, never idle.
C23_NoIdleWhilePending ==
    pendingTask # Null =>
        \A i \in DOMAIN activeAgents :
            StateOf(activeAgents[i]) \in {"working", "done"}

\* the timers of a run: the 'done' timers come before its reset, in the
\* order of scheduling and of time
ResetAfterDone ==
    \A i, j \in DOMAIN timers :
        (timers[i].kind = "reset" /\ timers[j].kind = "done"
            /\ timers[j].run = timers[i].run)
        => (j < i /\ timers[j].left <= timers[i].left)

\* the API call of the latest run has thrown, and no run is under way
LatestRunFailed ==
    /\ nRuns > 0
    /\ pendingTask = Null
    /\ Last(runLog) = "threw"

AllIdle == agents = defaultAgents /\ timers = <<>>

\* C24: after a run of handleExecute whose API call fails, unless a further
\* task is started, all seven agents return to idle (agents = defaultAgents)
\* and stay so; the reset of the run fires after its last 'done' timer.
C24_IdleAfterFailedRun ==
    /\ LatestRunFailed ~> (AllIdle \/ pendingTask # Null)
    /\ [][(AllIdle /\ pendingTask = Null /\ nRuns' = nRuns) => AllIdle']_vars
    /\ []ResetAfterDone

\* the first run failed and is over: everything idle, nothing scheduled
C24_ResetDone ==
    /\ LatestRunFailed
    /\ nRuns = 1
    /\ AllIdle
    /\ dToast # <<>>
    /\ Last(dToast) = "Demo Mode"

Without(l, s) == SelectSeq(l, LAMBDA x : x # s)

\* next is prev with the membership of s flipped and the rest as it was
Flips(prev, next, s) ==
    /\ (s \in Range(prev)) # (s \in Range(next))
    /\ Without(prev, s) = Without(next, s)

NoDuplicate(l) == Cardinality(Range(l)) = Len(l)

\* C25: toggleStandard(s), on the compliance page and in the app store,
\* flips the membership of s and leaves membership and relative order of
\* the other standards as they were; from the initial selection and with
\* toggleStandard only, the list has no duplicate, and toggling the same
\* standard twice gives the same set again.
C25_ToggleFlipsOne ==
    /\ NoDuplicate(selectedStandards)
    /\ NoDuplicate(storeStandards)
    /\ \A s \in Range(standards) :
          /\ Flips(selectedStandards, Toggled(selectedStandards, s), s)
          /\ Range(Toggled(Toggled(selectedStandards, s), s))
                = Range(selectedStandards)
    /\ \A s \in Range(complianceStandards) :
          /\ Flips(storeStandards, StoreToggled(storeStandards, s), s)
          /\ Range(StoreToggled(StoreToggled(storeStandards, s), s))
                = Range(storeStandards)

\* PCI-DSS was switched off and on again: same set, now behind RBI
C25_ToggledTwice ==
    /\ selectedStandards = <<"RBI", "PCI-DSS">>
    /\ storeStandards = <<"RBI", "PCI-DSS">>

=============================================================================
